---------------------------- MODULE Spec2Model ----------------------------
(***************************************************************************)
(* The offline caching layer of vtracer-wasm: the service worker's         *)
(* install / activate / fetch listeners and fetchAndCache (sw.js), run     *)
(* against Cache Storage, the network and the worker lifecycle of the      *)
(* Service Workers standard.                                               *)
(*                                                                         *)
(* A URL path is a sequence of tokens whose concatenation is the path      *)
(* (<<"/vtracer-wasm", "/favicon", ".svg">>), so that                      *)
(* url.pathname.endsWith(s) is a test of the last token.                   *)
(***************************************************************************)
EXTENDS Integers, Sequences, FiniteSets, TLC

(* ------------------------------ bounds --------------------------------- *)
\* fetch events the page's requests raise in one run; each is handled
\* concurrently with the others
MaxEvents == 2
\* those of them the previous build's worker handles, at most
MaxOldEvents == 1
\* messages other scripts of the origin post to the workers in one run
MaxMessages == 1
\* network events and clicks the offline indicator receives in one run
MaxUiEvents == 4
\* beforeinstallprompt events the browser raises in one run
MaxPrompts == 2
\* clicks on the install button in one run
MaxCalls == 2
(* ------------------------- program constants --------------------------- *)
CACHE_NAME == "vtracer-wasm-v1"
BASE_PATH == "/vtracer-wasm"

\* the store the previously deployed build named (its CACHE_NAME), and a
\* store some other script of the origin created
OLD_CACHE == "vtracer-wasm-v0"
FOREIGN_CACHE == "foreign-cache"
StoreNames == {OLD_CACHE, FOREIGN_CACHE, CACHE_NAME}

ROOT == <<BASE_PATH, "/">>

PRECACHE_ASSETS ==
  << ROOT,
     <<BASE_PATH, "/index", ".html">>,
     <<BASE_PATH, "/site", ".webmanifest">>,
     <<BASE_PATH, "/favicon", ".svg">>,
     <<BASE_PATH, "/favicon", ".ico">>,
     <<BASE_PATH, "/favicon-16x16", ".png">>,
     <<BASE_PATH, "/favicon-32x32", ".png">>,
     <<BASE_PATH, "/apple-touch-icon", ".png">>,
     <<BASE_PATH, "/android-chrome-192x192", ".png">>,
     <<BASE_PATH, "/android-chrome-512x512", ".png">>,
     <<BASE_PATH, "/VTRacer-WASM-Square", ".svg">>,
     <<BASE_PATH, "/VTRacer-WASM-Full", ".svg">> >>

Manifest == {PRECACHE_ASSETS[k] : k \in 1..Len(PRECACHE_ASSETS)}

(* ------------------------------ requests ------------------------------- *)
ABOUT == <<BASE_PATH, "/about">>
WASM == <<BASE_PATH, "/vtracer_webapp_bg", ".wasm">>
FAVICON == <<BASE_PATH, "/favicon", ".svg">>
DATA == <<BASE_PATH, "/api", "/status">>
CDN == <<"/lib", ".js">>
\* a same-origin URL that is not under BASE_PATH
SHARED == <<"/shared", "/theme", ".css">>

Req(origin, method, mode, path) ==
  [origin |-> origin, method |-> method, mode |-> mode, path |-> path]

\* the requests the controlled page issues
Requests ==
  { Req("self", "GET", "navigate", ROOT),
    Req("self", "GET", "navigate", ABOUT),
    Req("self", "GET", "cors", WASM),
    Req("self", "GET", "no-cors", FAVICON),
    Req("self", "GET", "cors", DATA),
    Req("self", "GET", "no-cors", SHARED),
    Req("cdn", "GET", "no-cors", CDN),
    Req("self", "POST", "cors", DATA) }

NoReq == Req("", "", "", <<>>)

\* the request URLs a store can hold an entry for (same-origin paths)
Urls == Manifest \cup {r.path : r \in {q \in Requests : q.origin = "self"}}

(* ------------------------------ responses ------------------------------ *)
\* a response: the URL it answers, the fetch that produced it (the number of
\* the fetch event, PRECACHED for cache.addAll of this build, OLD_PRECACHED
\* for the previous build's), ok
Response(path, id, ok) == [url |-> path, id |-> id, ok |-> ok]
PRECACHED == 0
OLD_PRECACHED == -1
None == Response(<<>>, 0, FALSE)
\* respondWith settled without a Response: the page's fetch fails
NetworkError == Response(<<"error">>, 0, FALSE)

EmptyStore == [u \in Urls |-> None]

(* ------------------------------ lifecycle ------------------------------ *)
PREV == "v0"
CUR == "v1"
Versions == {PREV, CUR}
CacheNameOf(ver) == IF ver = CUR THEN CACHE_NAME ELSE OLD_CACHE

VARIABLES
  sw,               \* worker state of each version
  controller,       \* the page's controller: a version or "none"
  skipWaitingFlag,  \* the new worker's skip waiting flag
  exists,           \* names of the cache stores that exist
  stores,           \* contents of each store
  ipc,              \* install listener: position in the promise chain
  precache,         \* outcome of cache.addAll: "none", "ok", "failed"
  apc,              \* activate listener: position in the promise chain
  toDelete,         \* names activate still has to delete
  h,                \* the fetch events being handled
  answered,         \* versions that answered a .wasm request from the network
  lastFetched       \* the latest ok response a static revalidation of CUR got

\* the page's side of the registration, and the messages it posts
VARIABLES
  inbox,            \* messages posted to the workers, not yet delivered
  port,             \* what the last message handler posted on event.ports[0]
  threw,            \* whether the last message handler threw
  handled,          \* the last message delivered, and the worker's state then
  sent,             \* messages posted by other scripts so far
  newWorkerState,   \* newWorker.state as the page has been told
  updateBanner,     \* classList of #update-banner: "hidden" or "shown"
  reloadedAt        \* state of the new worker when location.reload() ran

\* the offline indicator of the page
VARIABLES
  uiLoaded,                 \* the page's script has run
  indicatorHidden,          \* #offline-indicator has class hidden
  pillHidden,               \* #offline-pill has class hidden
  minimizedTimer,           \* null, or the handle setTimeout returned
  dismissedUntilReconnect,
  pending,                  \* ms until the pending timeout fires, or NULL
  timeouts,                 \* timeouts set and neither fired nor cleared
  onLine,                   \* navigator.onLine
  uiEvents,                 \* events and clicks received so far
  lastEvent                 \* the last of them

\* the install prompt (pwa.ts) and the install banner of the page
VARIABLES
  deferredPrompt,   \* null (0), or the captured beforeinstallprompt event
  captured,         \* beforeinstallprompt events raised so far
  promptCalls,      \* per event, the number of calls of its prompt()
  prompted,         \* events whose install dialog the browser has shown
  choice,           \* per event, what its userChoice resolved with
  call,             \* the invocations of promptInstall by the click listener
  installBanner     \* classList of #pwa-install-banner: "hidden" / "shown"

promptVars == <<deferredPrompt, captured, promptCalls, prompted, choice,
                call, installBanner>>

pageVars == <<inbox, port, threw, handled, sent, newWorkerState,
              updateBanner, reloadedAt>>

uiVars == <<uiLoaded, indicatorHidden, pillHidden, minimizedTimer,
            dismissedUntilReconnect, pending, timeouts, onLine, uiEvents,
            lastEvent>>

workerVars == <<sw, controller, skipWaitingFlag, exists, stores, ipc,
                precache, apc, toDelete, h, answered, lastFetched>>

\* the fetch listener, statement by statement
VARIABLES
  event,            \* the request of the fetch event being dispatched
  line,             \* the statement of the listener that runs next
  respondWithCalls, \* the number of calls of event.respondWith
  branch            \* the strategy whose respondWith was called last

dispatchVars == <<event, line, respondWithCalls, branch>>

\* the registration as pwa.ts holds it, and what getPWAStatus returned
VARIABLES
  swRegistration,   \* null ("null"), or the registration
  registerPc,       \* where registerServiceWorker is
  status            \* the PWAStatus returned last, and what it was made of

statusVars == <<swRegistration, registerPc, status>>

vars == <<sw, controller, skipWaitingFlag, exists, stores, ipc, precache,
          apc, toDelete, h, answered, lastFetched, pageVars, uiVars,
          promptVars, dispatchVars, statusVars>>

lifecycleVars == <<sw, controller, skipWaitingFlag, ipc, precache,
                   apc, toDelete>>

Slots == 1..MaxEvents

IdleHandler ==
  [pc |-> "idle", req |-> NoReq, ver |-> CUR, cached |-> None, resp |-> None,
   out |-> None, responded |-> FALSE, netted |-> FALSE, late |-> FALSE,
   cacheOps |-> FALSE, orphan |-> FALSE]

(* ----------------------------- Cache Storage --------------------------- *)
\* caches.match(key): the first match over the stores in creation order.
\* OLD_CACHE is created by the previous build's install, CACHE_NAME by this
\* build's, which runs later; FOREIGN_CACHE holds no URL of this app.
MatchOrder == <<OLD_CACHE, CACHE_NAME>>

RECURSIVE MatchFrom(_, _, _, _)
MatchFrom(k, ex, st, url) ==
  IF k > Len(MatchOrder) THEN None
  ELSE IF MatchOrder[k] \in ex /\ st[MatchOrder[k]][url] # None
       THEN st[MatchOrder[k]][url]
       ELSE MatchFrom(k + 1, ex, st, url)

CachesMatch(ex, st, url) == MatchFrom(1, ex, st, url)

\* (mutant: the entry is kept when there is one, as cache.add-if-absent would)
CachePutIfAbsent(store, url, resp) ==
  IF store[url] = None THEN [store EXCEPT ![url] = resp] ELSE store

\* cache.put(request, response): the entry under the request's URL is replaced
\* (mutant: an entry of a later fetch is not replaced by an earlier one)
CachePutNewestFetchWins(store, url, resp) ==
  IF store[url] # None /\ store[url].id > resp.id THEN store
  ELSE [store EXCEPT ![url] = resp]

CachePut(store, url, resp) == [store EXCEPT ![url] = resp]

RECURSIVE PutAll(_, _, _)
PutAll(store, resps, k) ==
  IF k > Len(resps) THEN store
  ELSE PutAll(CachePut(store, resps[k].url, resps[k]), resps, k + 1)

\* (mutant: each response is stored as it arrives, as a loop of cache.add would)
AddAllFetchedEach(store, resp) == [store EXCEPT ![resp.url] = resp]

\* cache.addAll: what the store holds after one more response has arrived
\* (nothing is written until every request has been answered ok) ...
AddAllFetched(store, resp) == store
RECURSIVE AddAllArrived(_, _, _)
AddAllArrived(store, resps, k) ==
  IF k > Len(resps) THEN store
  ELSE AddAllArrived(AddAllFetched(store, resps[k]), resps, k + 1)
\* ... and after all of them have (one batch of puts)
AddAllCommitted(store, resps) == PutAll(store, resps, 1)

(* ------------------------------ page state ----------------------------- *)
\* null: window.setTimeout has not been called, or the timer was cleared
NULL == -1
\* the handle window.setTimeout returns
HANDLE == 1
\* window.setTimeout(() => { showPill(); }, 8000)
MINIMIZE_DELAY == 8000

\* no message event has been delivered
NoMsg == [to |-> "", data |-> [kind |-> "", val |-> ""], ports |-> 0,
          at |-> ""]

\* the page has registered the worker and no message has been posted
PageInit ==
  /\ inbox = <<>>
  /\ port = <<>>
  /\ threw = FALSE
  /\ handled = NoMsg
  /\ sent = 0
  /\ newWorkerState = "parsed"
  /\ updateBanner = "hidden"
  /\ reloadedAt = "none"

\* the markup: both #offline-indicator and #offline-pill carry class hidden;
\* let minimizedTimer = null; let dismissedUntilReconnect = false
UiInit ==
  /\ uiLoaded = FALSE
  /\ indicatorHidden = TRUE
  /\ pillHidden = TRUE
  /\ minimizedTimer = NULL
  /\ dismissedUntilReconnect = FALSE
  /\ pending = NULL
  /\ timeouts = 0
  /\ onLine = TRUE
  /\ uiEvents = 0
  /\ lastEvent = "none"

\* let deferredPrompt = null; the banner carries class hidden; the install
\* button has not been clicked
PromptEvents == 1..MaxPrompts
Calls == 1..MaxCalls
\* what promptInstall resolved with: nothing yet, or a boolean
NoResult == [kind |-> "none", val |-> ""]
BooleanResult(b) == [kind |-> "boolean", val |-> IF b THEN "true" ELSE "false"]
IdleCall == [pc |-> "idle", ev |-> 0, rejects |-> FALSE, result |-> NoResult]

PromptInit ==
  /\ deferredPrompt = 0
  /\ captured = 0
  /\ promptCalls = [e \in PromptEvents |-> 0]
  /\ prompted = {}
  /\ choice = [e \in PromptEvents |-> "none"]
  /\ call = [c \in Calls |-> IdleCall]
  /\ installBanner = "hidden"

DispatchInit ==
  /\ event = NoReq
  /\ line = "idle"
  /\ respondWithCalls = 0
  /\ branch = "passthrough"

\* no PWAStatus has been returned yet
NoStatus ==
  [called |-> FALSE, isUpdateAvailable |-> FALSE, registration |-> "null",
   waiting |-> "null"]

\* let swRegistration = null
StatusInit ==
  /\ swRegistration = "null"
  /\ registerPc = "none"
  /\ status = NoStatus

(* ------------------------------- Init ---------------------------------- *)
\* The previous build's store holds what its precache put there.
OldStoreInit ==
  [u \in Urls |-> IF u \in Manifest THEN Response(u, OLD_PRECACHED, TRUE)
                  ELSE None]

\* The previous build is either the active worker controlling the page, or
\* there is none (first visit). A store some other script created may exist.
Init ==
  /\ \E oldActive \in BOOLEAN, foreign \in BOOLEAN :
       /\ sw = [v \in Versions |->
                  IF v = CUR THEN "parsed"
                  ELSE IF oldActive THEN "activated" ELSE "none"]
       /\ controller = IF oldActive THEN PREV ELSE "none"
       /\ exists = (IF oldActive THEN {OLD_CACHE} ELSE {})
                      \cup (IF foreign THEN {FOREIGN_CACHE} ELSE {})
       /\ stores = [n \in StoreNames |->
                      IF n = OLD_CACHE /\ oldActive THEN OldStoreInit
                      ELSE EmptyStore]
  /\ skipWaitingFlag = FALSE
  /\ ipc = "idle"
  /\ precache = "none"
  /\ apc = "idle"
  /\ toDelete = {}
  /\ h = [i \in Slots |-> IdleHandler]
  /\ answered = {}
  /\ lastFetched = None
  /\ PageInit
  /\ UiInit
  /\ PromptInit
  /\ DispatchInit
  /\ StatusInit

(* ------------------------------ network -------------------------------- *)
\* fetch(request) of fetch event i (PRECACHED: of cache.addAll): a
\* response, ok or not, or a rejection
FetchOutcomes == {"ok", "notok", "reject"}
FetchResult(outcome, path, i) ==
  IF outcome = "reject" THEN NetworkError
  ELSE Response(path, i, outcome = "ok")

(* --------------------------- install listener -------------------------- *)
\* the install event is dispatched to the newly parsed worker
InstallEvent ==
  /\ sw[CUR] = "parsed"
  /\ sw' = [sw EXCEPT ![CUR] = "installing"]
  /\ ipc' = "open"
  /\ UNCHANGED <<controller, skipWaitingFlag, exists, stores, precache, apc,
                 toDelete, h, answered, lastFetched>>

\* caches.open(CACHE_NAME): the store is created when absent
InstallOpen ==
  /\ ipc = "open"
  /\ exists' = exists \cup {CACHE_NAME}
  /\ ipc' = "addAll"
  /\ UNCHANGED <<sw, controller, skipWaitingFlag, stores, precache, apc,
                 toDelete, h, answered, lastFetched>>

\* cache.addAll(PRECACHE_ASSETS): the first n requests are answered ok; with
\* n short of the list the next one is rejected or answered not ok, which
\* rejects addAll; with all answered the batch is stored, unless storing
\* fails (quota), which rejects addAll as well
AddAll ==
  /\ ipc = "addAll"
  /\ \E n \in 0..Len(PRECACHE_ASSETS), stored \in BOOLEAN :
       LET resps == [k \in 1..n |->
                       FetchResult("ok", PRECACHE_ASSETS[k], PRECACHED)]
           arrived == AddAllArrived(stores[CACHE_NAME], resps, 1)
       IN IF n = Len(PRECACHE_ASSETS) /\ stored
          THEN /\ stores' = [stores EXCEPT ![CACHE_NAME] =
                               AddAllCommitted(arrived, resps)]
               /\ ipc' = "skipWaiting"
               /\ UNCHANGED precache
          ELSE /\ stores' = [stores EXCEPT ![CACHE_NAME] = arrived]
               /\ ipc' = "catch"
               /\ precache' = "failed"
  /\ UNCHANGED <<sw, controller, skipWaitingFlag, exists, apc,
                 toDelete, h, answered, lastFetched>>

\* .then(() => self.skipWaiting())
InstallSkipWaiting ==
  /\ ipc = "skipWaiting"
  /\ skipWaitingFlag' = TRUE
  /\ precache' = "ok"
  /\ ipc' = "fulfilled"
  /\ UNCHANGED <<sw, controller, exists, stores, apc,
                 toDelete, h, answered, lastFetched>>

\* .catch((error) => { console.error(...) }): the handler returns, so the
\* promise given to event.waitUntil is fulfilled
InstallCatchSettles == "fulfilled"

InstallCatch ==
  /\ ipc = "catch"
  /\ ipc' = InstallCatchSettles
  /\ UNCHANGED <<sw, controller, skipWaitingFlag, exists, stores, precache,
                 apc, toDelete, h, answered, lastFetched>>

\* the promise given to event.waitUntil has settled: the worker becomes
\* installed (waiting) when it was fulfilled, redundant when it was rejected
InstallEnd ==
  /\ ipc \in {"fulfilled", "rejected"}
  /\ sw' = [sw EXCEPT ![CUR] = IF ipc = "fulfilled" THEN "installed"
                               ELSE "redundant"]
  /\ ipc' = "done"
  /\ UNCHANGED <<controller, skipWaitingFlag, exists, stores, precache, apc,
                 toDelete, h, answered, lastFetched>>

(* --------------------------- worker lifecycle -------------------------- *)
RunningPcs == {"match", "fac_fetch", "open", "fac_match", "nav_fallback",
                  "d_fetch", "d_match"}

\* an event of the worker is pending while its respondWith promise is
HasPendingEvents(ver) ==
  \E i \in Slots : /\ h[i].ver = ver
                   /\ h[i].pc \in RunningPcs
                   /\ h[i].out = None

\* Terminate Service Worker: the running script is aborted; a cache.put
\* already handed to the storage backend is not part of the script
\* (mutant: the replaced worker's script goes on running)
TerminatedNever(hs, ver) == hs

Terminated(hs, ver) ==
  [i \in Slots |->
     IF hs[i].ver = ver /\ hs[i].pc \in RunningPcs
     THEN [IdleHandler EXCEPT !.pc = "killed", !.req = hs[i].req,
                              !.ver = ver, !.out = hs[i].out]
     ELSE hs[i]]

\* Try Activate / Activate: the waiting worker replaces the active one when
\* there is none, or when it has no pending events and either no page uses
\* it or the skip waiting flag is set. The replaced worker is terminated and
\* the pages it controlled get the new worker as controller.
Activate ==
  /\ sw[CUR] = "installed"
  /\ \/ sw[PREV] # "activated"
     \/ /\ ~HasPendingEvents(PREV)
        /\ controller # PREV \/ skipWaitingFlag
  /\ sw' = [v \in Versions |->
              IF v = CUR THEN "activating"
              ELSE IF sw[v] = "activated" THEN "redundant" ELSE sw[v]]
  /\ h' = Terminated(h, PREV)
  /\ controller' = IF controller = PREV THEN CUR ELSE controller
  /\ apc' = "keys"
  /\ UNCHANGED <<skipWaitingFlag, exists, stores, ipc, precache, toDelete,
                 answered, lastFetched>>

(* --------------------------- activate listener ------------------------- *)
\* (mutant: only the stores of earlier builds of this app are selected)
StaleCachesOfApp(cacheNames) ==
  {name \in cacheNames : name # CACHE_NAME /\ name = OLD_CACHE}

\* cacheNames.filter((name) => name !== CACHE_NAME)
StaleCaches(cacheNames) == {name \in cacheNames : name # CACHE_NAME}

\* caches.keys().then((cacheNames) => Promise.all(... caches.delete ...))
ActivateKeys ==
  /\ apc = "keys"
  /\ toDelete' = StaleCaches(exists)
  /\ apc' = "delete"
  /\ UNCHANGED <<sw, controller, skipWaitingFlag, exists, stores, ipc,
                 precache, h, answered, lastFetched>>

\* caches.delete(name): the store leaves Cache Storage; a Cache object opened
\* on it before is detached from the name
ActivateDelete ==
  /\ apc = "delete"
  /\ \E name \in toDelete :
       /\ exists' = exists \ {name}
       /\ stores' = [stores EXCEPT ![name] = EmptyStore]
       /\ toDelete' = toDelete \ {name}
       /\ h' = [i \in Slots |->
                  IF h[i].pc = "put" /\ CacheNameOf(h[i].ver) = name
                  THEN [h[i] EXCEPT !.orphan = TRUE] ELSE h[i]]
  /\ UNCHANGED <<sw, controller, skipWaitingFlag, ipc, precache, apc,
                 answered, lastFetched>>

\* .then(() => self.clients.claim())
ActivateClaim ==
  /\ apc = "delete"
  /\ toDelete = {}
  /\ controller' = CUR
  /\ apc' = "claimed"
  /\ UNCHANGED <<sw, skipWaitingFlag, exists, stores, ipc, precache, toDelete,
                 h, answered, lastFetched>>

\* the promise given to event.waitUntil has settled: the worker is activated
ActivateEnd ==
  /\ apc = "claimed"
  /\ sw' = [sw EXCEPT ![CUR] = "activated"]
  /\ apc' = "done"
  /\ UNCHANGED <<controller, skipWaitingFlag, exists, stores, ipc,
                 precache, toDelete, h, answered, lastFetched>>

(* ----------------------------- fetch listener -------------------------- *)
\* navigator.serviceWorker.register(swPath, { scope: normalizedBase }): the
\* URLs under the base path
InScope(path) == Len(path) > 0 /\ path[1] = BASE_PATH

EndsWith(path, suffix) == Len(path) > 0 /\ path[Len(path)] = suffix

STATIC_SUFFIXES ==
  {".js", ".css", ".svg", ".png", ".jpg", ".jpeg", ".ico", ".webmanifest"}

\* (mutant: the method guard is missing)
InterceptedAnyMethod(r) == r.origin = "self"

\* url.origin !== self.location.origin -> return; method !== 'GET' -> return
Intercepted(r) == r.origin = "self" /\ r.method = "GET"

\* the branch of the listener a request takes
Strategy(r) ==
  IF ~Intercepted(r) THEN "passthrough"
  ELSE IF r.mode = "navigate" THEN "navigate"
  ELSE IF EndsWith(r.path, ".wasm") THEN "wasm"
  ELSE IF \E e \in STATIC_SUFFIXES : EndsWith(r.path, e) THEN "static"
  ELSE "default"

\* (mutant: navigate refreshes on a miss only, like the .wasm branch)
CallsFetchAndCacheOnMiss(strategy, cachedResponse) ==
  CASE strategy = "navigate" -> cachedResponse = None
    [] strategy = "wasm" -> cachedResponse = None
    [] strategy = "static" -> TRUE
    [] OTHER -> FALSE

\* after caches.match(request): is fetchAndCache(request) called?
\*   navigate: in both branches; .wasm: on a miss; static: always
CallsFetchAndCache(strategy, cachedResponse) ==
  CASE strategy = "navigate" -> TRUE
    [] strategy = "wasm" -> cachedResponse = None
    [] strategy = "static" -> TRUE
    [] OTHER -> FALSE

\* (mutant: the static branch returns fetchPromise || cachedResponse)
ReturnedAtOnceStaticWaits(strategy, cachedResponse) ==
  IF strategy = "static" THEN None ELSE cachedResponse

\* after caches.match(request): the response the .then callback returns at
\* once (None: it returns the promise of fetchAndCache instead)
\*   navigate / .wasm: cachedResponse when there is one
\*   static: cachedResponse || fetchPromise
ReturnedAtOnce(strategy, cachedResponse) == cachedResponse

FirstIdle(i) == h[i].pc = "idle" /\ \A j \in Slots : j < i => h[j].pc # "idle"

EventsOf(ver) == {j \in Slots : h[j].pc # "idle" /\ h[j].ver = ver}

\* a fetch event of the controlled page reaches the listener: the guards,
\* then the branch's respondWith( first call )
FetchEvent(i, r) ==
  /\ FirstIdle(i)
  /\ controller \in Versions
  /\ controller = PREV => Cardinality(EventsOf(PREV)) < MaxOldEvents
  /\ sw[controller] = "activated"
  /\ LET s == Strategy(r)
         base == [IdleHandler EXCEPT !.req = r, !.ver = controller,
                    !.late = s = "wasm" /\ controller \in answered]
     IN h' = [h EXCEPT ![i] =
           CASE s = "passthrough" -> [base EXCEPT !.pc = "done"]
             [] s = "default" ->
                  [base EXCEPT !.pc = "d_fetch", !.responded = TRUE,
                               !.netted = TRUE]
             [] OTHER ->
                  [base EXCEPT !.pc = "match", !.responded = TRUE,
                               !.cacheOps = TRUE]]
  /\ UNCHANGED <<lifecycleVars, exists, stores, answered, lastFetched>>

\* caches.match(request).then((cachedResponse) => ...)
Match(i) ==
  /\ h[i].pc = "match"
  /\ LET s == Strategy(h[i].req)
         c == CachesMatch(exists, stores, h[i].req.path)
         calls == CallsFetchAndCache(s, c)
     IN h' = [h EXCEPT ![i] =
           [@ EXCEPT !.cached = c,
                     !.out = ReturnedAtOnce(s, c),
                     !.netted = calls,
                     !.pc = IF calls THEN "fac_fetch" ELSE "done"]]
  /\ UNCHANGED <<lifecycleVars, exists, stores, answered, lastFetched>>

\* (mutant: the navigate branch has no .catch)
RejectionPcNoFallback(strategy) == "done"

\* what respondWith settles to when fetchAndCache rejects:
\*   navigate: .catch(() => caches.match(`${BASE_PATH}/`)) runs next
\*   .wasm / static: the rejection reaches respondWith
RejectionPc(strategy) ==
  IF strategy = "navigate" THEN "nav_fallback" ELSE "done"

\* (mutant: the response is stored whatever its status)
StoresResponseAlways(response) == TRUE

\* if (response.ok) { ... cache.put(request, response.clone()) }
StoresResponse(response) == response.ok

\* fetchAndCache: const response = await fetch(request)
FacFetch(i) ==
  /\ h[i].pc = "fac_fetch"
  /\ \E outcome \in FetchOutcomes :
       LET r == FetchResult(outcome, h[i].req.path, i)
           fg == h[i].out = None
       IN /\ h' = [h EXCEPT ![i] =
                CASE outcome = "reject" ->
                       [@ EXCEPT !.resp = r, !.pc = "fac_match"]
                  [] outcome # "reject" /\ StoresResponse(r) ->
                       [@ EXCEPT !.resp = r, !.pc = "open"]
                  [] OTHER ->
                       [@ EXCEPT !.resp = r, !.pc = "done",
                                 !.out = IF fg THEN r ELSE @]]
          /\ lastFetched' =
               IF outcome = "ok" /\ h[i].ver = CUR
                  /\ Strategy(h[i].req) = "static"
               THEN r ELSE lastFetched
  /\ UNCHANGED <<lifecycleVars, exists, stores, answered>>

\* await caches.open(CACHE_NAME); cache.put(request, response.clone()) is
\* called and not awaited; return response
\* (default branch: caches.open(CACHE_NAME).then((cache) => cache.put(...)),
\*  the response having been returned already)
Open(i) ==
  /\ h[i].pc = "open"
  /\ exists' = exists \cup {CacheNameOf(h[i].ver)}
  /\ h' = [h EXCEPT ![i] =
             [@ EXCEPT !.pc = "put", !.cacheOps = TRUE,
                       !.out = IF @ = None THEN h[i].resp ELSE @]]
  /\ answered' = IF h[i].out = None /\ Strategy(h[i].req) = "wasm"
                 THEN answered \cup {h[i].ver} ELSE answered
  /\ UNCHANGED <<lifecycleVars, stores, lastFetched>>

\* the cache.put started by the handler completes
PutCommit(i) ==
  /\ h[i].pc = "put"
  /\ stores' = IF h[i].orphan THEN stores
               ELSE [stores EXCEPT ![CacheNameOf(h[i].ver)] =
                       CachePut(@, h[i].req.path, h[i].resp)]
  /\ h' = [h EXCEPT ![i] = [@ EXCEPT !.pc = "done"]]
  /\ UNCHANGED <<lifecycleVars, exists, answered, lastFetched>>

\* (mutant: the catch block rethrows without looking at the cache)
ReturnsCachedNever(cachedResponse) == FALSE

\* fetchAndCache, catch: if (cachedResponse) { return cachedResponse }
ReturnsCached(cachedResponse) == cachedResponse # None

\* fetchAndCache, catch (error): const cachedResponse = await
\* caches.match(request); return it when there is one, else throw error
FacMatch(i) ==
  /\ h[i].pc = "fac_match"
  /\ LET c == CachesMatch(exists, stores, h[i].req.path)
         fg == h[i].out = None
         s == Strategy(h[i].req)
     IN h' = [h EXCEPT ![i] =
           IF ~fg THEN [@ EXCEPT !.pc = "done"]
           ELSE IF ReturnsCached(c) THEN [@ EXCEPT !.pc = "done", !.out = c]
           ELSE [@ EXCEPT !.pc = RejectionPc(s),
                          !.out = IF RejectionPc(s) = "done"
                                  THEN NetworkError ELSE @]]
  /\ UNCHANGED <<lifecycleVars, exists, stores, answered, lastFetched>>

\* navigate: .catch(() => caches.match(`${BASE_PATH}/`))
FallbackKey == ROOT

NavFallback(i) ==
  /\ h[i].pc = "nav_fallback"
  /\ LET c == CachesMatch(exists, stores, FallbackKey)
     IN h' = [h EXCEPT ![i] =
           [@ EXCEPT !.pc = "done",
                     !.out = IF c # None THEN c ELSE NetworkError]]
  /\ UNCHANGED <<lifecycleVars, exists, stores, answered, lastFetched>>

\* default branch: fetch(request).then((response) => { if (response.ok)
\* { clone; caches.open(...).then(put) } return response })
DefaultFetch(i) ==
  /\ h[i].pc = "d_fetch"
  /\ \E outcome \in FetchOutcomes :
       LET r == FetchResult(outcome, h[i].req.path, i)
       IN /\ h' = [h EXCEPT ![i] =
                CASE outcome = "reject" ->
                       [@ EXCEPT !.resp = r, !.pc = "d_match"]
                  [] outcome # "reject" /\ StoresResponse(r) ->
                       [@ EXCEPT !.resp = r, !.out = r, !.pc = "open"]
                  [] OTHER ->
                       [@ EXCEPT !.resp = r, !.out = r, !.pc = "done"]]
  /\ UNCHANGED <<lifecycleVars, exists, stores, answered, lastFetched>>

\* default branch: .catch(() => caches.match(request))
DefaultMatch(i) ==
  /\ h[i].pc = "d_match"
  /\ LET c == CachesMatch(exists, stores, h[i].req.path)
     IN h' = [h EXCEPT ![i] =
           [@ EXCEPT !.pc = "done", !.cached = c, !.cacheOps = TRUE,
                     !.out = IF c # None THEN c ELSE NetworkError]]
  /\ UNCHANGED <<lifecycleVars, exists, stores, answered, lastFetched>>

Next ==
  /\ \/ InstallEvent
     \/ InstallOpen
     \/ AddAll
     \/ InstallSkipWaiting
     \/ InstallCatch
     \/ InstallEnd
     \/ Activate
     \/ ActivateKeys
     \/ ActivateDelete
     \/ ActivateClaim
     \/ ActivateEnd
     \/ \E i \in Slots, r \in Requests : FetchEvent(i, r)
     \/ \E i \in Slots : Match(i)
     \/ \E i \in Slots : FacFetch(i)
     \/ \E i \in Slots : Open(i)
     \/ \E i \in Slots : PutCommit(i)
     \/ \E i \in Slots : FacMatch(i)
     \/ \E i \in Slots : NavFallback(i)
     \/ \E i \in Slots : DefaultFetch(i)
     \/ \E i \in Slots : DefaultMatch(i)
  /\ UNCHANGED <<pageVars, uiVars, promptVars, dispatchVars, statusVars>>

Spec == Init /\ [][Next]_vars

(* ---------------------------- message listener ------------------------- *)
\* event.data as the structured clone delivers it: undefined, a string, or
\* an object whose type property is val ("undefined" when it has none)
Data(kind, val) == [kind |-> kind, val |-> val]
SKIP_WAITING == Data("object", "SKIP_WAITING")
GET_VERSION == Data("object", "GET_VERSION")
MsgData ==
  { Data("undefined", ""), Data("string", "GET_VERSION"),
    SKIP_WAITING, GET_VERSION,
    Data("object", "PING"), Data("object", "undefined") }

\* a message event for worker `to`; ports is event.ports.length
Msg(to, data, ports) == [to |-> to, data |-> data, ports |-> ports]

\* ToBoolean(event.data)
Truthy(d) == d.kind # "undefined" /\ ~(d.kind = "string" /\ d.val = "")

\* event.data.type
PropType(d) == IF d.kind = "object" THEN d.val ELSE "undefined"

\* (mutant: event.data.type === t without the event.data && guard)
TypeIsUnguarded(d, t) ==
  IF d.kind = "undefined" THEN "throws"
  ELSE IF PropType(d) = t THEN "yes" ELSE "no"

\* event.data && event.data.type === t
TypeIs(d, t) ==
  IF ~Truthy(d) THEN "no"
  ELSE IF PropType(d) = t THEN "yes" ELSE "no"

\* (mutant: the flag is flipped)
SkipWaitingToggles(flag) == ~flag

\* self.skipWaiting(): the worker's skip waiting flag is set
SkipWaitingSets(flag) == TRUE

\* (mutant: every worker answers with the newest tag)
GetVersionPostsLatest(ver) == <<[version |-> CACHE_NAME]>>

\* postMessage({ version: CACHE_NAME }), CACHE_NAME being that of the
\* worker's own script
GetVersionPosts(ver) == <<[version |-> CacheNameOf(ver)]>>

\* event.ports[0]
PortsAt0(m) == IF m.ports > 0 THEN "port" ELSE "undefined"

\* <x>.postMessage(...): a TypeError when x is undefined
PostMessageOn(x) == IF x = "undefined" THEN "throws" ELSE "posted"

\* the first if statement of the listener
SkipBranch(m) == TypeIs(m.data, "SKIP_WAITING")
\* the second, reached when the first did not throw
VersionBranch(m) ==
  IF SkipBranch(m) = "throws" THEN "no" ELSE TypeIs(m.data, "GET_VERSION")

FlagAfter(m, flag) ==
  IF SkipBranch(m) = "yes" /\ m.to = CUR THEN SkipWaitingSets(flag) ELSE flag

PortAfter(m) ==
  IF VersionBranch(m) = "yes" /\ PostMessageOn(PortsAt0(m)) = "posted"
  THEN GetVersionPosts(m.to) ELSE <<>>

ThrewAfter(m) ==
  \/ SkipBranch(m) = "throws"
  \/ VersionBranch(m) = "throws"
  \/ VersionBranch(m) = "yes" /\ PostMessageOn(PortsAt0(m)) = "throws"

\* a worker that can be started to receive an event
Running(ver) == sw[ver] \in {"installing", "installed", "activating",
                             "activated"}

\* some script of the origin posts a message to one of the workers
PostMessage(to, data, ports) ==
  /\ sent < MaxMessages
  /\ Running(to)
  /\ inbox' = Append(inbox, Msg(to, data, ports))
  /\ sent' = sent + 1
  /\ UNCHANGED <<workerVars, port, threw, handled, newWorkerState,
                 updateBanner, reloadedAt, uiVars>>

\* self.addEventListener('message', (event) => { ... })
Message ==
  /\ inbox # <<>>
  /\ Running(Head(inbox).to)
  /\ skipWaitingFlag' = FlagAfter(Head(inbox), skipWaitingFlag)
  /\ port' = PortAfter(Head(inbox))
  /\ threw' = ThrewAfter(Head(inbox))
  /\ handled' = [to |-> Head(inbox).to, data |-> Head(inbox).data,
                  ports |-> Head(inbox).ports, at |-> sw[Head(inbox).to]]
  /\ inbox' = Tail(inbox)
  /\ UNCHANGED <<sw, controller, exists, stores, ipc, precache, apc,
                 toDelete, h, answered, lastFetched, sent, newWorkerState,
                 updateBanner, reloadedAt, uiVars>>

\* the worker the message was posted to has become redundant: the message
\* is never delivered
DropMessage ==
  /\ inbox # <<>>
  /\ ~Running(Head(inbox).to)
  /\ inbox' = Tail(inbox)
  /\ UNCHANGED <<workerVars, port, threw, handled, sent, newWorkerState,
                 updateBanner, reloadedAt, uiVars>>

(* ------------------------- page: update banner ------------------------- *)
StateOrder == <<"parsed", "installing", "installed", "activating",
                "activated">>

StateIndex(state) ==
  IF state \in {StateOrder[k] : k \in 1..Len(StateOrder)}
  THEN CHOOSE k \in 1..Len(StateOrder) : StateOrder[k] = state
  ELSE 0

\* registerServiceWorker: newWorker.addEventListener('statechange', ...):
\* the page is told the next state the new worker went through; on
\* 'installed' with a controller it dispatches pwa:updateavailable, whose
\* listener shows the banner
\* (mutant: the update banner's listener is called for every event
\*  dispatched on window)
updateBannerListenerAnyEvent(name, banner) == "shown"

\* window.addEventListener('pwa:updateavailable', () => {
\*   updateBanner?.classList.remove('hidden') }): the banner after an event
\* of the given name is dispatched on window
updateBannerListener(name, banner) ==
  IF name = "pwa:updateavailable" THEN "shown" ELSE banner

StateChange ==
  /\ reloadedAt = "none"
  /\ StateIndex(newWorkerState) < Len(StateOrder)
  /\ StateIndex(newWorkerState) < StateIndex(sw[CUR])
  /\ newWorkerState' = StateOrder[StateIndex(newWorkerState) + 1]
  /\ updateBanner' = IF newWorkerState' = "installed" /\ controller # "none"
                     THEN updateBannerListener("pwa:updateavailable",
                                               updateBanner)
                     ELSE updateBanner
  /\ UNCHANGED <<workerVars, inbox, port, threw, handled, sent,
                 reloadedAt, uiVars>>

\* pwa.ts skipWaiting(): if (swRegistration?.waiting)
\*   swRegistration.waiting.postMessage({ type: 'SKIP_WAITING' })
SkipWaitingPosts(box) ==
  IF newWorkerState = "installed"
  THEN Append(box, Msg(CUR, SKIP_WAITING, 0)) ELSE box

\* updateBtn click listener: skipWaiting(); window.location.reload().
\* The reload ends the page; the page loaded next shows no banner.
UpdateClick ==
  /\ updateBanner = "shown"
  /\ reloadedAt = "none"
  /\ inbox' = SkipWaitingPosts(inbox)
  /\ reloadedAt' = sw[CUR]
  /\ updateBanner' = "hidden"
  /\ UNCHANGED <<workerVars, port, threw, handled, sent, newWorkerState,
                 uiVars>>

\* a step of the workers leaves the page as it is
PageIdle == UNCHANGED <<pageVars, uiVars>>

PageNext ==
  /\ \/ InstallEvent /\ PageIdle
     \/ InstallOpen /\ PageIdle
     \/ AddAll /\ PageIdle
     \/ InstallSkipWaiting /\ PageIdle
     \/ InstallCatch /\ PageIdle
     \/ InstallEnd /\ PageIdle
     \/ Activate /\ PageIdle
     \/ ActivateKeys /\ PageIdle
     \/ ActivateDelete /\ PageIdle
     \/ ActivateClaim /\ PageIdle
     \/ ActivateEnd /\ PageIdle
     \/ \E to \in Versions, data \in MsgData, ports \in {0, 1} :
          PostMessage(to, data, ports)
     \/ Message
     \/ DropMessage
     \/ StateChange
     \/ UpdateClick
  /\ UNCHANGED <<promptVars, dispatchVars, statusVars>>

PageSpec == Init /\ [][PageNext]_vars

(* ------------------------- page: offline indicator --------------------- *)
\* the indicator's state as one record, for the functions of the script
Ui ==
  [indicatorHidden |-> indicatorHidden, pillHidden |-> pillHidden,
   minimizedTimer |-> minimizedTimer,
   dismissedUntilReconnect |-> dismissedUntilReconnect, pending |-> pending,
   timeouts |-> timeouts]

SetUi(u) ==
  /\ indicatorHidden' = u.indicatorHidden
  /\ pillHidden' = u.pillHidden
  /\ minimizedTimer' = u.minimizedTimer
  /\ dismissedUntilReconnect' = u.dismissedUntilReconnect
  /\ pending' = u.pending
  /\ timeouts' = u.timeouts

\* if (minimizedTimer !== null) { clearTimeout(minimizedTimer);
\*   minimizedTimer = null }
\* window.clearTimeout(handle): the timeout of the handle, when it has not
\* fired, is cancelled. minimizedTimer holds the handle of the timeout set
\* last, the one `pending` counts down.
clearTimeout(u) ==
  IF u.pending # NULL
  THEN [u EXCEPT !.pending = NULL, !.timeouts = @ - 1]
  ELSE u

\* (mutant: the handle is dropped and its timeout is not cancelled; the
\*  timeout set next replaces it in `pending`)
clearMinimizeTimerDropsHandle(u) == [u EXCEPT !.minimizedTimer = NULL]

clearMinimizeTimer(u) ==
  IF u.minimizedTimer # NULL
  THEN [clearTimeout(u) EXCEPT !.minimizedTimer = NULL]
  ELSE u

\* (mutant: no timeout is set)
scheduleMinimizeNoTimer(u) == clearMinimizeTimer(u)

scheduleMinimize(u) ==
  [clearMinimizeTimer(u) EXCEPT !.minimizedTimer = HANDLE,
                                !.pending = MINIMIZE_DELAY,
                                !.timeouts = @ + 1]

\* (mutant: a pending timeout is left running)
showIndicatorKeepsTimer(u) ==
  IF u.dismissedUntilReconnect THEN u
  ELSE LET v == [u EXCEPT !.indicatorHidden = FALSE, !.pillHidden = TRUE]
       IN IF v.pending # NULL THEN v ELSE scheduleMinimize(v)

\* (mutant: the dismissal is not looked at)
showIndicatorIgnoresDismissal(u) ==
  scheduleMinimize(clearMinimizeTimer(
    [u EXCEPT !.indicatorHidden = FALSE, !.pillHidden = TRUE]))

\* (mutant: the pill is left as it is)
showIndicatorKeepsPill(u) ==
  IF u.dismissedUntilReconnect THEN u
  ELSE scheduleMinimize(clearMinimizeTimer(
         [u EXCEPT !.indicatorHidden = FALSE]))

showIndicator(u) ==
  IF u.dismissedUntilReconnect THEN u
  ELSE scheduleMinimize(clearMinimizeTimer(
         [u EXCEPT !.indicatorHidden = FALSE, !.pillHidden = TRUE]))

\* (mutant: the timeout is left pending)
hideIndicatorKeepsTimer(u) == [u EXCEPT !.indicatorHidden = TRUE]

hideIndicator(u) == clearMinimizeTimer([u EXCEPT !.indicatorHidden = TRUE])

\* (mutant: the full indicator stays)
showPillKeepsIndicator(u) == [u EXCEPT !.pillHidden = FALSE]

\* (mutant: the pill is not shown)
showPillHidesOnly(u) == [u EXCEPT !.indicatorHidden = TRUE]

showPill(u) == [u EXCEPT !.indicatorHidden = TRUE, !.pillHidden = FALSE]

hidePill(u) == [u EXCEPT !.pillHidden = TRUE]

\* an event or click is received
Receive(name) ==
  /\ uiLoaded
  /\ uiEvents < MaxUiEvents
  /\ uiEvents' = uiEvents + 1
  /\ lastEvent' = name

\* the script runs: if (!navigator.onLine) { showIndicator() }
UiLoad ==
  /\ ~uiLoaded
  /\ uiLoaded' = TRUE
  /\ \E on \in BOOLEAN :
       /\ onLine' = on
       /\ SetUi(IF ~on THEN showIndicator(Ui) ELSE Ui)
  /\ lastEvent' = "load"
  /\ UNCHANGED <<uiEvents, workerVars, pageVars>>

\* 'online': the listener of initPWA dispatches pwa:online, whose listener
\* runs at once; then the script's own 'online' listener runs
\* (mutant: the online listeners leave the pill as it is)
onlineListenerKeepsPill(u) ==
  hideIndicator([u EXCEPT !.dismissedUntilReconnect = FALSE])

onlineListener(u) ==
  hidePill(hideIndicator([u EXCEPT !.dismissedUntilReconnect = FALSE]))

OnlineEvent ==
  /\ Receive("online")
  /\ onLine' = TRUE
  /\ SetUi(onlineListener(onlineListener(Ui)))
  /\ updateBanner' = updateBannerListener("online",
                        updateBannerListener("pwa:online", updateBanner))
  /\ UNCHANGED <<uiLoaded, workerVars, inbox, port, threw, handled, sent,
                 newWorkerState, reloadedAt>>

\* 'offline': pwa:offline listener, then the 'offline' listener
OfflineEvent ==
  /\ Receive("offline")
  /\ onLine' = FALSE
  /\ SetUi(showIndicator(showIndicator(Ui)))
  /\ updateBanner' = updateBannerListener("offline",
                        updateBannerListener("pwa:offline", updateBanner))
  /\ UNCHANGED <<uiLoaded, workerVars, inbox, port, threw, handled, sent,
                 newWorkerState, reloadedAt>>

\* offlineClose click listener
CloseClick ==
  /\ Receive("close")
  /\ SetUi(hidePill(hideIndicator(
             [Ui EXCEPT !.dismissedUntilReconnect = TRUE])))
  /\ UNCHANGED <<uiLoaded, onLine, workerVars, pageVars>>

\* offlineMinimize click listener
MinimizeClick ==
  /\ Receive("minimize")
  /\ SetUi(showPill([Ui EXCEPT !.dismissedUntilReconnect = FALSE]))
  /\ UNCHANGED <<uiLoaded, onLine, workerVars, pageVars>>

\* offlinePillExpand click listener
ExpandClick ==
  /\ Receive("expand")
  /\ SetUi(showIndicator(hidePill(
             [Ui EXCEPT !.dismissedUntilReconnect = FALSE])))
  /\ UNCHANGED <<uiLoaded, onLine, workerVars, pageVars>>

\* globalThis.offlineBanner
OfflineBannerMethods == {"show", "hide", "reset", "pill.show", "pill.hide"}

offlineBanner(method, u) ==
  CASE method = "show" ->
         showIndicator([u EXCEPT !.dismissedUntilReconnect = FALSE])
    [] method = "hide" ->
         hidePill(hideIndicator([u EXCEPT !.dismissedUntilReconnect = TRUE]))
    [] method = "reset" ->
         showIndicator(hidePill([u EXCEPT !.dismissedUntilReconnect = FALSE]))
    [] method = "pill.show" -> showPill(u)
    [] OTHER -> hidePill(u)

OfflineBannerCall ==
  /\ \E method \in OfflineBannerMethods :
       /\ Receive(method)
       /\ SetUi(offlineBanner(method, Ui))
  /\ UNCHANGED <<uiLoaded, onLine, workerVars, pageVars>>

\* time passes while a timeout is pending, by no more than is left of it
Elapses == {1000, 3000, MINIMIZE_DELAY}

Advance ==
  /\ pending # NULL
  /\ \E d \in Elapses : /\ d <= pending
                        /\ pending' = pending - d
  /\ UNCHANGED <<uiLoaded, indicatorHidden, pillHidden, minimizedTimer,
                 dismissedUntilReconnect, timeouts, onLine, uiEvents,
                 lastEvent, workerVars, pageVars>>

\* the timeout fires: () => { showPill(); }; minimizedTimer keeps the handle
TimerFires ==
  /\ pending = 0
  /\ SetUi([showPill(Ui) EXCEPT !.pending = NULL, !.timeouts = @ - 1])
  /\ UNCHANGED <<uiLoaded, onLine, uiEvents, lastEvent, workerVars, pageVars>>

UiNext ==
  /\ \/ UiLoad
     \/ OnlineEvent
     \/ OfflineEvent
     \/ CloseClick
     \/ MinimizeClick
     \/ ExpandClick
     \/ OfflineBannerCall
     \/ Advance
     \/ TimerFires
  /\ UNCHANGED <<promptVars, dispatchVars, statusVars>>

UiSpec == Init /\ [][UiNext]_vars

\* the page as a user drives it: network events, timeouts, and clicks on
\* the buttons that are visible (the close and minimize buttons are part of
\* the indicator, the expand button is part of the pill); offlineBanner is
\* not called
UserNext ==
  /\ \/ UiLoad
     \/ OnlineEvent
     \/ OfflineEvent
     \/ ~indicatorHidden /\ CloseClick
     \/ ~indicatorHidden /\ MinimizeClick
     \/ ~pillHidden /\ ExpandClick
     \/ Advance
     \/ TimerFires
  /\ UNCHANGED <<promptVars, dispatchVars, statusVars>>

UserSpec == Init /\ [][UserNext]_vars

\* the page with both banners: the workers' lifecycle, the statechange
\* listener and the update button, and the offline indicator
BannersNext ==
  /\ \/ InstallEvent /\ PageIdle
     \/ InstallOpen /\ PageIdle
     \/ AddAll /\ PageIdle
     \/ InstallSkipWaiting /\ PageIdle
     \/ InstallCatch /\ PageIdle
     \/ InstallEnd /\ PageIdle
     \/ Activate /\ PageIdle
     \/ ActivateKeys /\ PageIdle
     \/ ActivateDelete /\ PageIdle
     \/ ActivateClaim /\ PageIdle
     \/ ActivateEnd /\ PageIdle
     \/ StateChange
     \/ UpdateClick
     \/ UiLoad
     \/ OnlineEvent
     \/ OfflineEvent
     \/ CloseClick
     \/ MinimizeClick
     \/ ExpandClick
     \/ OfflineBannerCall
     \/ Advance
     \/ TimerFires
  /\ UNCHANGED <<promptVars, dispatchVars, statusVars>>

BannersSpec == Init /\ [][BannersNext]_vars

\* timeouts run: time passes and a due callback is called
UiLiveSpec ==
  /\ UiSpec
  /\ WF_vars(Advance /\ UNCHANGED <<promptVars, dispatchVars, statusVars>>)
  /\ WF_vars(TimerFires /\ UNCHANGED <<promptVars, dispatchVars, statusVars>>)

(* ------------------ fetch listener: strategy dispatch ------------------ *)
SCRIPT == <<BASE_PATH, "/_astro/app", ".js">>

\* every request a page can issue: origin, method, mode and path vary
\* independently
AnyRequests ==
  { Req(origin, method, mode, path) :
      origin \in {"self", "cdn"}, method \in {"GET", "POST"},
      mode \in {"navigate", "cors", "no-cors"},
      path \in {ROOT, ABOUT, WASM, FAVICON, DATA, SCRIPT, SHARED} }

\* (mutant: a branch that does not return after event.respondWith)
AfterRespondWithFallsThrough(next) == next

\* event.respondWith( ... ); return;
AfterRespondWith(next) == "returned"

\* a fetch event is dispatched to the listener
Dispatch(r) ==
  /\ line \in {"idle", "returned"}
  /\ event' = r
  /\ line' = "origin"
  /\ respondWithCalls' = 0
  /\ branch' = "passthrough"

\* if (url.origin !== self.location.origin) return;
OriginGuard ==
  /\ line = "origin"
  /\ line' = IF event.origin # "self" THEN "returned" ELSE "method"
  /\ UNCHANGED <<event, respondWithCalls, branch>>

\* if (request.method !== 'GET') return;
MethodGuard ==
  /\ line = "method"
  /\ line' = IF event.method # "GET" THEN "returned" ELSE "navigate"
  /\ UNCHANGED <<event, respondWithCalls, branch>>

\* if (condition) { event.respondWith(strategy); return; }
Branch(at, condition, strategy, next) ==
  /\ line = at
  /\ IF condition
     THEN /\ respondWithCalls' = respondWithCalls + 1
          /\ branch' = strategy
          /\ line' = AfterRespondWith(next)
     ELSE /\ line' = next
          /\ UNCHANGED <<respondWithCalls, branch>>
  /\ UNCHANGED event

\* if (request.mode === 'navigate') { ... }
NavigateBranch ==
  Branch("navigate", event.mode = "navigate", "navigate", "wasm")

\* if (url.pathname.endsWith('.wasm')) { ... }
WasmBranch ==
  Branch("wasm", EndsWith(event.path, ".wasm"), "wasm", "static")

\* if (url.pathname.endsWith('.js') || ... ) { ... }
StaticBranch ==
  Branch("static", \E e \in STATIC_SUFFIXES : EndsWith(event.path, e),
         "static", "default")

\* event.respondWith(fetch(request) ... ) as the last statement
DefaultBranch == Branch("default", TRUE, "default", "returned")

DispatchNext ==
  /\ \/ \E r \in AnyRequests : Dispatch(r)
     \/ OriginGuard
     \/ MethodGuard
     \/ NavigateBranch
     \/ WasmBranch
     \/ StaticBranch
     \/ DefaultBranch
  /\ UNCHANGED <<workerVars, pageVars, uiVars, promptVars, statusVars>>

DispatchSpec == Init /\ [][DispatchNext]_vars

(* ------------------ page: registration and getPWAStatus ---------------- *)
\* registerServiceWorker is called: if (!('serviceWorker' in navigator))
\* return null; else navigator.serviceWorker.register(...) is awaited
RegisterCalled ==
  /\ registerPc = "none"
  /\ \E supported \in BOOLEAN :
       registerPc' = IF supported THEN "pending" ELSE "unsupported"
  /\ UNCHANGED <<swRegistration, status>>

\* swRegistration = await navigator.serviceWorker.register(...)
RegisterResolves ==
  /\ registerPc = "pending"
  /\ swRegistration' = "registration"
  /\ registerPc' = "registered"
  /\ UNCHANGED status

\* catch (error) { ...; return null }
RegisterRejects ==
  /\ registerPc = "pending"
  /\ registerPc' = "failed"
  /\ UNCHANGED <<swRegistration, status>>

\* registration.waiting: the installed worker that is not yet activating
WaitingOf(registration) ==
  IF sw[CUR] = "installed" THEN CUR ELSE "null"

\* swRegistration?.waiting: undefined when swRegistration is null
OptionalWaiting(registration) ==
  IF registration = "null" THEN "undefined" ELSE WaitingOf(registration)

\* v !== null
NotNull(v) == v # "null"

\* getPWAStatus: isUpdateAvailable: swRegistration?.waiting !== null,
\* registration: swRegistration
GetPWAStatus ==
  /\ status' = [called |-> TRUE,
                isUpdateAvailable |-> NotNull(OptionalWaiting(swRegistration)),
                registration |-> swRegistration,
                waiting |-> IF swRegistration = "null" THEN "null"
                            ELSE WaitingOf(swRegistration)]
  /\ UNCHANGED <<swRegistration, registerPc>>

\* a step of the workers, once the page has its registration
Registered ==
  /\ registerPc = "registered"
  /\ UNCHANGED <<pageVars, uiVars, statusVars>>

StatusNext ==
  /\ \/ RegisterCalled /\ UNCHANGED <<workerVars, pageVars, uiVars>>
     \/ RegisterResolves /\ UNCHANGED <<workerVars, pageVars, uiVars>>
     \/ RegisterRejects /\ UNCHANGED <<workerVars, pageVars, uiVars>>
     \/ GetPWAStatus /\ UNCHANGED <<workerVars, pageVars, uiVars>>
     \/ InstallEvent /\ Registered
     \/ InstallOpen /\ Registered
     \/ AddAll /\ Registered
     \/ InstallSkipWaiting /\ Registered
     \/ InstallCatch /\ Registered
     \/ InstallEnd /\ Registered
     \/ Activate /\ Registered
     \/ ActivateKeys /\ Registered
     \/ ActivateDelete /\ Registered
     \/ ActivateClaim /\ Registered
     \/ ActivateEnd /\ Registered
  /\ UNCHANGED <<promptVars, dispatchVars>>

StatusSpec == Init /\ [][StatusNext]_vars

(* -------------------- page: install prompt and banner ------------------ *)
\* initPWA, beforeinstallprompt listener: deferredPrompt = e;
\* dispatchPWAEvent('installable'), whose listener shows the banner
BeforeInstallPrompt ==
  /\ captured < MaxPrompts
  /\ captured' = captured + 1
  /\ deferredPrompt' = captured + 1
  /\ installBanner' = "shown"
  /\ UNCHANGED <<promptCalls, prompted, choice, call>>

\* initPWA, appinstalled listener: deferredPrompt = null
AppInstalled ==
  /\ deferredPrompt # 0
  /\ deferredPrompt' = 0
  /\ UNCHANGED <<captured, promptCalls, prompted, choice, call,
                 installBanner>>

\* result?.outcome of the click listener: the property of an object,
\* undefined for a boolean
OutcomeOf(result) ==
  IF result.kind = "object" THEN result.val ELSE "undefined"

\* installBtn click listener, after the await:
\* if (result?.outcome === 'accepted') installBanner.classList.add('hidden')
BannerAfter(result, banner) ==
  IF OutcomeOf(result) = "accepted" THEN "hidden" ELSE banner

\* promptInstall has resolved with b and the click listener goes on
Resolved(c, b) ==
  /\ call' = [call EXCEPT ![c] =
                [@ EXCEPT !.pc = "done", !.result = BooleanResult(b)]]
  /\ installBanner' = BannerAfter(BooleanResult(b), installBanner)

FirstIdleCall(c) ==
  /\ call[c].pc = "idle"
  /\ \A d \in Calls : d < c => call[d].pc # "idle"

\* installBtn click listener: await window.promptToInstall(), that is
\* promptInstall: if (!deferredPrompt) return false; else
\* deferredPrompt.prompt() is called and awaited. The browser shows the
\* dialog of an event once: prompt() is rejected when it was called on the
\* event before, and may be rejected when the browser refuses the prompt.
InstallClick(c) ==
  /\ FirstIdleCall(c)
  /\ installBanner = "shown"
  /\ IF deferredPrompt = 0
     THEN /\ Resolved(c, FALSE)
          /\ UNCHANGED <<promptCalls, prompted>>
     ELSE /\ promptCalls' = [promptCalls EXCEPT ![deferredPrompt] = @ + 1]
          /\ \E refused \in BOOLEAN :
               LET rejects == refused \/ deferredPrompt \in prompted
               IN /\ call' = [call EXCEPT ![c] =
                       [@ EXCEPT !.pc = "prompting", !.rejects = rejects]]
                  /\ prompted' = IF rejects THEN prompted
                                 ELSE prompted \cup {deferredPrompt}
          /\ UNCHANGED installBanner
  /\ UNCHANGED <<deferredPrompt, captured, choice>>

\* await deferredPrompt.prompt() settles. Rejected: catch, return false.
\* Fulfilled: deferredPrompt.userChoice is read from the variable as it is
\* now - a TypeError when it has become null - and awaited.
PromptSettles(c) ==
  /\ call[c].pc = "prompting"
  /\ IF call[c].rejects \/ deferredPrompt = 0
     THEN Resolved(c, FALSE)
     ELSE /\ call' = [call EXCEPT ![c] =
                        [@ EXCEPT !.pc = "choosing", !.ev = deferredPrompt]]
          /\ UNCHANGED installBanner
  /\ UNCHANGED <<deferredPrompt, captured, promptCalls, prompted, choice>>

\* the user answers the dialog of an event
UserChoices == {"accepted", "dismissed"}

UserChooses(e) ==
  /\ e \in prompted
  /\ choice[e] = "none"
  /\ \E outcome \in UserChoices : choice' = [choice EXCEPT ![e] = outcome]
  /\ UNCHANGED <<deferredPrompt, captured, promptCalls, prompted, call,
                 installBanner>>

\* const { outcome } = await deferredPrompt.userChoice; deferredPrompt =
\* null; return outcome === 'accepted'
ChoiceSettles(c) ==
  /\ call[c].pc = "choosing"
  /\ choice[call[c].ev] # "none"
  /\ deferredPrompt' = 0
  /\ Resolved(c, choice[call[c].ev] = "accepted")
  /\ UNCHANGED <<captured, promptCalls, prompted, choice>>

\* installClose / installLater click listeners
InstallDismissClick ==
  /\ installBanner = "shown"
  /\ installBanner' = "hidden"
  /\ UNCHANGED <<deferredPrompt, captured, promptCalls, prompted, choice,
                 call>>

PromptNext ==
  /\ \/ BeforeInstallPrompt
     \/ AppInstalled
     \/ \E c \in Calls : InstallClick(c)
     \/ \E c \in Calls : PromptSettles(c)
     \/ \E e \in PromptEvents : UserChooses(e)
     \/ \E c \in Calls : ChoiceSettles(c)
     \/ InstallDismissClick
  /\ UNCHANGED <<workerVars, pageVars, uiVars, dispatchVars, statusVars>>

PromptSpec == Init /\ [][PromptNext]_vars

(* ------------------------------- claims ------------------------------- *)
Handles(i, strategy) == h[i].pc # "idle" /\ Strategy(h[i].req) = strategy

ManifestHeld(store) == {u \in Manifest : store[u] # None}

\* C1 (as claimed): a .wasm request raised after the worker answered an
\* earlier .wasm request from the network never reaches the network.
C1_SecondRequestNeverReachesNetwork ==
  \A i \in Slots : (Handles(i, "wasm") /\ h[i].late) => ~h[i].netted

\* C2 (as claimed): when the precache has failed, the new worker never
\* becomes installed, activating or activated.
C2_FailedPrecacheFailsInstall ==
  precache = "failed" => sw[CUR] \notin {"installed", "activating", "activated"}

\* C3: from the moment cache.addAll has failed until the new worker starts
\* serving, the store named CACHE_NAME holds none of the manifest entries;
\* once the precache has succeeded the store exists and holds all of them.
C3_PrecacheAtomic ==
  /\ (precache = "failed" /\ sw[CUR] # "activated")
       => ManifestHeld(stores[CACHE_NAME]) = {}
  /\ precache = "ok"
       => CACHE_NAME \in exists /\ ManifestHeld(stores[CACHE_NAME]) = Manifest

\* C3 witness: an install ended after addAll had failed, the store created
C3_Witness ==
  precache = "failed" /\ sw[CUR] = "installed" /\ CACHE_NAME \in exists

\* C4: once the activate listener's work is complete, the stores that exist
\* are exactly the one named CACHE_NAME, whatever existed before.
C4_OnlyCurrentStoreAfterActivate ==
  apc \in {"claimed", "done"} => exists = {CACHE_NAME}

\* C4 witness: activation completed where a previous build's worker, which
\* had a store of its own, was replaced
C4_Witness ==
  apc = "done" /\ sw[PREV] = "redundant" /\ exists = {CACHE_NAME}

\* C5: a static-asset request that found a cache entry is answered with
\* that entry, whatever the network fetch it started does.
C5_StaticServedFromCache ==
  \A i \in Slots :
    (Handles(i, "static") /\ h[i].cached # None) => h[i].out = h[i].cached

\* C5 witness: such a request is finished, its network fetch having failed
C5_Witness ==
  \E i \in Slots : /\ Handles(i, "static")
                   /\ h[i].cached # None
                   /\ h[i].pc = "done"
                   /\ h[i].resp = NetworkError
                   /\ h[i].out = h[i].cached

RevalidationInFlight ==
  \E i \in Slots : /\ Handles(i, "static")
                   /\ h[i].ver = CUR
                   /\ h[i].pc \in RunningPcs \cup {"put"}

C8_NavigateFallsBackToRoot ==
  [][\A i \in Slots :
       (Handles(i, "navigate") /\ h[i].out = None /\ h'[i].out # None) =>
         /\ h'[i].out = NetworkError => CachesMatch(exists, stores, ROOT) = None
         /\ h[i].pc = "nav_fallback" /\ CachesMatch(exists, stores, ROOT) # None
              => h'[i].out = CachesMatch(exists, stores, ROOT)]_vars

\* C8 witness: a navigation to a page that is not cached, its fetch rejected,
\* was answered with the root document
C8_Witness ==
  \E i \in Slots : /\ Handles(i, "navigate")
                   /\ h[i].req.path = ABOUT
                   /\ h[i].cached = None
                   /\ h[i].resp = NetworkError
                   /\ h[i].pc = "done"
                   /\ h[i].out.url = ROOT

\* C9 (as claimed): in the default branch, when the caller has received an
\* ok network response the entry of the key holds that response; when the
\* fetch was rejected the caller receives the cached match, or a failure
\* when there is none.
C9_NetworkFirstStoresBeforeReturn ==
  \A i \in Slots :
    Handles(i, "default") =>
      /\ (h[i].out # None /\ h[i].resp.ok /\ h[i].out = h[i].resp)
           => stores[CacheNameOf(h[i].ver)][h[i].req.path] = h[i].out
      /\ (h[i].pc = "done" /\ h[i].resp = NetworkError)
           => h[i].out = IF h[i].cached # None THEN h[i].cached
                         ELSE NetworkError

\* C10: for a request of another origin or of a method other than GET the
\* listener never calls respondWith, never fetches and never reads or
\* writes a cache.
C10_OnlySameOriginGetIntercepted ==
  \A i \in Slots :
    (h[i].pc # "idle" /\ (h[i].req.origin # "self" \/ h[i].req.method # "GET"))
      => /\ ~h[i].responded
         /\ ~h[i].cacheOps
         /\ ~h[i].netted
         /\ h[i].out = None
         /\ h[i].pc = "done"

\* C10 witness: a request of another origin and a POST have both passed
C10_Witness ==
  \E i, j \in Slots : /\ h[i].pc = "done" /\ h[i].req.origin # "self"
                      /\ h[j].pc = "done" /\ h[j].req.method = "POST"
                      /\ h[j].req.origin = "self"

\* a step that delivers the message at the head of inbox to its worker
Delivered ==
  /\ inbox # <<>>
  /\ Running(Head(inbox).to)
  /\ inbox' = Tail(inbox)

\* the version tag of the active worker
ActiveTag == CacheNameOf(CHOOSE v \in Versions : sw[v] = "activated")

C12_NoPortIsNoOp ==
  [][(Delivered /\ Head(inbox).data = GET_VERSION /\ Head(inbox).ports = 0)
       => /\ ~threw'
          /\ port' = <<>>
          /\ UNCHANGED workerVars]_vars

\* data that is absent, not an object, or of another type
Unrecognized(d) ==
  \/ d.kind # "object"
  \/ d.val \notin {"SKIP_WAITING", "GET_VERSION"}

\* C13: a message whose data is absent, is not an object or has a type other
\* than SKIP_WAITING and GET_VERSION is ignored: the handler raises no
\* error, sets no skip waiting flag, posts nothing, and the workers' states
\* and the cache stores stay as they are.
C13_UnrecognizedIgnored ==
  [][(Delivered /\ Unrecognized(Head(inbox).data))
       => /\ ~threw'
          /\ port' = <<>>
          /\ UNCHANGED workerVars]_vars

\* C13 witness: a message without data, sent with a port to the waiting
\* worker, has been handled and the worker still waits
C13_Witness ==
  /\ handled.data.kind = "undefined" /\ handled.ports = 1
  /\ handled.to = CUR /\ handled.at = "installed"
  /\ sw[CUR] = "installed" /\ ~skipWaitingFlag
  /\ ~threw /\ port = <<>>

C20_ReloadOnlyAfterActivation ==
  reloadedAt # "none" => reloadedAt = "activated"

\* ConnectivityState as the page shows it
OfflineVisible == ~indicatorHidden /\ pillHidden
OfflineMinimized == indicatorHidden /\ ~pillHidden

\* a step that handles the event or click `name`
Received(name) == uiEvents' = uiEvents + 1 /\ lastEvent' = name

\* a step in which the pending timeout fires
Expired == pending = 0 /\ pending' = NULL /\ uiEvents' = uiEvents

\* C15: an offline event received while dismissedUntilReconnect is not set
\* shows the full indicator, hides the pill and arms the timeout with the
\* full 8000 ms; so does the load of the page while offline.
C15_OfflineShowsIndicator ==
  [][((Received("offline") /\ ~dismissedUntilReconnect)
        \/ (~uiLoaded /\ uiLoaded' /\ ~onLine'))
       => /\ OfflineVisible'
          /\ minimizedTimer' # NULL
          /\ pending' = 8000
          /\ ~dismissedUntilReconnect']_vars

\* C15 witness: the second event received was an offline event and the
\* indicator is shown with the full interval ahead
C15_Witness ==
  /\ lastEvent = "offline" /\ uiEvents = 2
  /\ ~onLine
  /\ OfflineVisible
  /\ pending = MINIMIZE_DELAY

\* C16: from OfflineVisible, unless an event or click is received, the
\* timeout fires and the state becomes OfflineMinimized.
C16_VisibleEventuallyMinimized ==
  \A n \in 0..MaxUiEvents :
    (OfflineVisible /\ uiEvents = n) ~> (OfflineMinimized \/ uiEvents # n)

\* C16 witness: the timeout has fired (the handle is still held) and the
\* pill has replaced the indicator shown for the offline event
C16_Witness ==
  /\ lastEvent = "offline"
  /\ OfflineMinimized
  /\ pending = NULL /\ minimizedTimer # NULL

\* C17: an online event, in whatever state it is received, clears
\* dismissedUntilReconnect, hides the indicator and the pill and leaves no
\* timeout pending.
C17_OnlineHidesAll ==
  [][Received("online")
       => /\ ~dismissedUntilReconnect'
          /\ indicatorHidden' /\ pillHidden'
          /\ pending' = NULL /\ minimizedTimer' = NULL
          /\ onLine']_vars

\* C17 witness: an online event was the last of several events and clicks
C17_Witness ==
  /\ lastEvent = "online" /\ uiEvents = MaxUiEvents
  /\ indicatorHidden /\ pillHidden /\ pending = NULL
  /\ ~dismissedUntilReconnect

\* C18: the close click in OfflineVisible sets dismissedUntilReconnect and
\* hides both the indicator and the pill; while it is set no timeout is
\* pending and an offline event shows neither of them and leaves it set; an
\* online event clears it.
C18_DismissedUntilReconnect ==
  /\ [](dismissedUntilReconnect => pending = NULL)
  /\ [][/\ (Received("close") /\ OfflineVisible)
             => /\ dismissedUntilReconnect'
                /\ indicatorHidden' /\ pillHidden'
        /\ (dismissedUntilReconnect /\ (Received("offline") \/ Expired))
             => /\ dismissedUntilReconnect'
                /\ indicatorHidden => indicatorHidden'
                /\ pillHidden => pillHidden'
        /\ (dismissedUntilReconnect /\ Received("online"))
             => ~dismissedUntilReconnect']_vars

\* C18 witness: an offline event was received after the dismissal and
\* nothing is shown
C18_Witness ==
  /\ lastEvent = "offline" /\ uiEvents >= 3
  /\ dismissedUntilReconnect
  /\ indicatorHidden /\ pillHidden

\* C19: the expand click shows the full indicator, hides the pill and arms
\* the timeout anew with the full 8000 ms, whatever was left of an earlier
\* one.
C19_ExpandRearms ==
  [][Received("expand")
       => /\ OfflineVisible'
          /\ pending' = 8000
          /\ minimizedTimer' # NULL]_vars

\* C19 witness: the pill was expanded
C19_Witness ==
  /\ lastEvent = "expand"
  /\ OfflineVisible
  /\ pending = MINIMIZE_DELAY
  /\ ~onLine

\* C21 (as claimed): when the page is told that the new worker is installed
\* it raises pwa:updateavailable (the banner is shown) if, and only if, a
\* worker controlled the page before this one; on a first install it raises
\* nothing.
C21_UpdateSignalOnlyForUpdates ==
  [][(newWorkerState # "installed" /\ newWorkerState' = "installed")
       => (updateBanner' = "shown" <=> sw[PREV] # "none")]_vars

\* C22 (as claimed): prompt() of a captured event is called at most once,
\* whatever the sequence of captures and clicks, and a click with no
\* captured event calls nothing.
C22_PromptReplayedOnce ==
  /\ [](\A e \in PromptEvents : promptCalls[e] <= 1)
  /\ [][\A c \in Calls :
          (call[c].pc = "idle" /\ call'[c].pc # "idle" /\ deferredPrompt = 0)
            => promptCalls' = promptCalls /\ call'[c].pc = "done"]_vars

\* C23 (as claimed): in no reachable state does the new version control the
\* page while the store of a prior version still exists.
C23_NoControlBeforePurge ==
  controller = CUR => OLD_CACHE \notin exists

\* C24: when the listener has returned, respondWith was called exactly once
\* for an intercepted request and not at all for any other; the strategy it
\* was called with depends on the request alone, by first match: navigation
\* before .wasm before the static extensions before the default.
C24_FirstMatchDispatch ==
  line = "returned" =>
    /\ respondWithCalls = (IF Intercepted(event) THEN 1 ELSE 0)
    /\ branch = Strategy(event)
    /\ Intercepted(event) /\ event.mode = "navigate" => branch = "navigate"
    /\ Intercepted(event) /\ event.mode # "navigate"
         /\ EndsWith(event.path, ".wasm") => branch = "wasm"

\* a navigation to a .wasm path has been dispatched to the navigate strategy
C24_Witness ==
  /\ line = "returned"
  /\ Intercepted(event)
  /\ event.mode = "navigate"
  /\ EndsWith(event.path, ".wasm")
  /\ branch = "navigate"
  /\ respondWithCalls = 1

\* C25: at most one minimize timeout is pending at any time, whatever the
\* sequence of offline events (each handled by both listeners), expands and
\* offlineBanner calls: a timeout is set only when none is pending, and
\* when one fires none is left to fire again.
C25_OneTimerPending ==
  /\ [](timeouts <= 1)
  /\ [][timeouts' > timeouts =>
          timeouts' = 1 /\ pending' = MINIMIZE_DELAY]_vars
  /\ [][Expired => timeouts' = 0]_vars

\* an offline event was handled by both listeners, the second setting the
\* timeout while that of the first was pending: one is pending
C25_Witness ==
  /\ lastEvent = "offline"
  /\ ~dismissedUntilReconnect
  /\ timeouts = 1
  /\ pending = MINIMIZE_DELAY

\* a step in which the cache.put of handler i completes on a store that
\* still has its name
PutCompletes(i) == h[i].pc = "put" /\ ~h[i].orphan /\ h'[i].pc = "done"

\* the cache.put of handler i, of the new worker, has completed
Wrote(i) ==
  /\ h[i].ver = CUR
  /\ Intercepted(h[i].req)
  /\ h[i].pc = "done"
  /\ h[i].resp.ok

\* C26: writes to one key are last-write-wins, whatever the strategy and the
\* interleaving: a completing cache.put replaces the entry of its request's
\* key by its response and touches no other key; while the worker serves,
\* an entry of its store changes in no other way; so when handlers have
\* written a key the entry is the response of one of them, whole.
C26_LastWriteWins ==
  /\ [][\A i \in Slots :
          PutCompletes(i) =>
            \A u \in Urls :
              stores'[CacheNameOf(h[i].ver)][u] =
                IF u = h[i].req.path THEN h[i].resp
                ELSE stores[CacheNameOf(h[i].ver)][u]]_vars
  /\ [][\A u \in Urls :
          (sw[CUR] = "activated"
             /\ stores'[CACHE_NAME][u] # stores[CACHE_NAME][u])
            => \E i \in Slots : /\ PutCompletes(i)
                                /\ h[i].ver = CUR
                                /\ h[i].req.path = u]_vars
  /\ [](\A i \in Slots :
          Wrote(i) =>
            stores[CACHE_NAME][h[i].req.path]
              \in {h[j].resp : j \in {k \in Slots :
                                        /\ Wrote(k)
                                        /\ h[k].req.path = h[i].req.path}})

\* two requests of the default branch for one key have both written, the
\* write of the earlier request completing last: its response is the entry
C26_Witness ==
  \E i, j \in Slots :
    /\ i < j
    /\ Handles(i, "default") /\ Handles(j, "default")
    /\ h[i].ver = CUR /\ h[j].ver = CUR
    /\ h[i].req.path = h[j].req.path
    /\ h[i].pc = "done" /\ h[j].pc = "done"
    /\ h[i].resp.ok /\ h[j].resp.ok
    /\ stores[CACHE_NAME][h[i].req.path] = h[i].resp

\* C27 (as claimed): for a same-origin GET request whose path is not under
\* the base path the listener does not call respondWith and nothing is
\* written to a cache under its URL.
C27_OutOfScopePassedThrough ==
  \A i \in Slots :
    (h[i].pc # "idle" /\ Intercepted(h[i].req) /\ ~InScope(h[i].req.path))
      => /\ ~h[i].responded
         /\ ~h[i].cacheOps
         /\ \A n \in StoreNames : stores[n][h[i].req.path] = None

CachingStrategies == {"navigate", "wasm", "static"}

\* C28: in the navigate, .wasm and static branches a request that found a
\* cache entry is answered with it whatever its fetch does; a request that
\* found none and whose fetch was rejected is answered with the entry that
\* fetchAndCache finds when it looks again, if there is one; a failure is
\* the answer only after both lookups found nothing and the fetch was
\* rejected.
C28_FailureAbsorbedByCache ==
  /\ [](\A i \in Slots :
          (h[i].pc # "idle" /\ Strategy(h[i].req) \in CachingStrategies) =>
            /\ h[i].cached # None => h[i].out = h[i].cached
            /\ h[i].out = NetworkError
                 => h[i].cached = None /\ h[i].resp = NetworkError)
  /\ [][\A i \in Slots :
          (/\ Strategy(h[i].req) \in CachingStrategies
           /\ h[i].pc = "fac_match" /\ h[i].out = None
           /\ h'[i].pc \notin {"fac_match", "killed"})
            => LET c == CachesMatch(exists, stores, h[i].req.path)
               IN IF c # None THEN h'[i].out = c /\ h'[i].pc = "done"
                  ELSE h'[i].out \in {None, NetworkError}]_vars

\* a .wasm request found no entry and its fetch was rejected; the entry
\* another request had written meanwhile is the answer
C28_Witness ==
  \E i \in Slots : /\ Handles(i, "wasm")
                   /\ h[i].cached = None
                   /\ h[i].resp = NetworkError
                   /\ h[i].pc = "done"
                   /\ h[i].out.ok
                   /\ h[i].out.url = h[i].req.path

\* C29: the update banner and the offline indicator are independent: a step
\* that changes anything of the offline indicator (an online or offline
\* event, a close, minimize or expand click, an offlineBanner call, the
\* timeout firing) leaves the update banner as it is, and a step that shows
\* the update banner leaves the indicator, the pill, the dismissal flag and
\* the timeout as they are.
C29_BannersIndependent ==
  /\ [][(uiEvents' # uiEvents \/ Ui' # Ui) => updateBanner' = updateBanner]_vars
  /\ [][(updateBanner # "shown" /\ updateBanner' = "shown") => Ui' = Ui]_vars

\* the update banner was shown while the indicator was minimized to the
\* pill with the dismissal flag clear, and all of it is still so
C29_Witness ==
  /\ updateBanner = "shown"
  /\ newWorkerState = "installed"
  /\ ~pillHidden
  /\ indicatorHidden
  /\ lastEvent \in {"offline", "minimize"}

\* C30 (as claimed): the installed new version starts to activate while the
\* previous version controls the page only if a page has posted a message to
\* a worker before (the update button's SKIP_WAITING, or a message of
\* another script); when none was posted it stays waiting.
C30_WaitsForForceActivate ==
  [][(sw[CUR] = "installed" /\ sw'[CUR] = "activating" /\ controller = PREV)
       => (sent > 0 \/ reloadedAt # "none")]_vars

\* C31 (as claimed): where a previous version had a store, that store is
\* gone only if the store of the current version holds every entry of the
\* precache manifest, the root document among them.
C31_PurgeOnlyAfterPrecache ==
  (sw[PREV] # "none" /\ OLD_CACHE \notin exists)
    => /\ ManifestHeld(stores[CACHE_NAME]) = Manifest
       /\ stores[CACHE_NAME][ROOT] # None

\* C32: once the new version is activated no store of the previous version
\* exists, in that state and in every later one: a cache.put of a handler of
\* the previous version that completes after the purge creates no store
\* and no entry.
C32_NoOldStoreAfterActivation ==
  /\ [](sw[CUR] = "activated" => OLD_CACHE \notin exists)
  /\ [][\A i \in Slots :
          (h[i].ver = PREV /\ h[i].pc = "put" /\ h'[i].pc = "done"
             /\ OLD_CACHE \notin exists)
            => exists' = exists /\ stores'[OLD_CACHE] = EmptyStore]_vars

\* a handler of the previous version was past caches.open when the purge
\* deleted its store; its cache.put has completed since
C32_Witness ==
  /\ sw[CUR] = "activated"
  /\ OLD_CACHE \notin exists
  /\ \E i \in Slots : h[i].ver = PREV /\ h[i].pc = "done" /\ h[i].orphan

\* C33: the full indicator and the pill are never visible together, whatever
\* events, clicks, timeouts and offlineBanner calls have happened.
C33_NeverBothVisible == indicatorHidden \/ pillHidden

\* the pill took the indicator's place through offlineBanner.pill.show()
C33_Witness ==
  /\ lastEvent = "pill.show"
  /\ ~pillHidden
  /\ indicatorHidden
  /\ onLine = FALSE

\* C34: while the page is offline and dismissedUntilReconnect is not set,
\* exactly one of the full indicator and the pill is visible, in every state
\* reached through network events, timeouts and clicks on visible buttons.
C34_OfflineShowsExactlyOne ==
  (uiLoaded /\ ~onLine /\ ~dismissedUntilReconnect)
    => (indicatorHidden # pillHidden)

\* offline, the pill was expanded back to the full indicator
C34_Witness ==
  /\ uiLoaded /\ ~onLine /\ ~dismissedUntilReconnect
  /\ lastEvent = "expand"
  /\ ~indicatorHidden /\ pillHidden

\* C35: from an online event (or a load while online) until the next
\* offline event neither the full indicator nor the pill is visible and no
\* timeout is pending that could show the pill; no step taken while online
\* other than an offline event shows either of them.
C35_NothingShownWhileOnline ==
  /\ []((uiLoaded /\ onLine)
          => indicatorHidden /\ pillHidden /\ pending = NULL /\ timeouts = 0)
  /\ [][(uiLoaded /\ onLine /\ ~Received("offline"))
          => indicatorHidden' /\ pillHidden']_vars

\* an online event was received after at least two other events or clicks:
\* nothing is visible and nothing is pending
C35_Witness ==
  /\ lastEvent = "online"
  /\ uiEvents >= 3
  /\ onLine
  /\ indicatorHidden /\ pillHidden
  /\ pending = NULL

\* C36 (as claimed): a minimize timeout is pending only while the full
\* indicator is visible.
C36_TimerOnlyWhileVisible == pending # NULL => ~indicatorHidden

\* C37: every entry of every store is an ok response, whether cache.addAll
\* or a strategy wrote it; a handler whose fetch was answered with a
\* response that is not ok never goes on to write, so the entry of its key
\* stays what it was.
C37_OnlyOkResponsesStored ==
  /\ [](\A n \in StoreNames, u \in Urls :
          stores[n][u] # None => stores[n][u].ok /\ stores[n][u].url = u)
  /\ [](\A i \in Slots :
          (h[i].resp # None /\ ~h[i].resp.ok) => h[i].pc \notin {"open", "put"})

\* a revalidation of a precached static asset was answered with a response
\* that is not ok; the precached entry is still there
C37_Witness ==
  \E i \in Slots :
    /\ Handles(i, "static")
    /\ h[i].ver = CUR
    /\ h[i].pc = "done"
    /\ h[i].resp # None /\ h[i].resp # NetworkError /\ ~h[i].resp.ok
    /\ stores[CACHE_NAME][h[i].req.path].ok
    /\ stores[CACHE_NAME][h[i].req.path].id = PRECACHED

\* C38 (as claimed): getPWAStatus returns isUpdateAvailable = true only when
\* a registration exists and has a waiting worker; with no registration
\* (before it, after it failed, where service workers are unsupported) it
\* returns false.
C38_UpdateAvailableOnlyWhenWaiting ==
  (status.called /\ status.isUpdateAvailable)
    => status.registration # "null" /\ status.waiting # "null"

\* C39 (as claimed): when promptInstall, called by the install button's
\* click listener, resolves after the user accepted the prompt, the install
\* banner is hidden.
C39_AcceptedHidesBanner ==
  [][\A c \in Calls :
       (call[c].pc = "choosing" /\ call'[c].pc = "done"
          /\ choice[call[c].ev] = "accepted")
         => installBanner' = "hidden"]_vars

=============================================================================
